---- MODULE Spec2Model ----
(***************************************************************************)
(* Model of main.py: the websocket subscriber (subscribe), the metadata    *)
(* and image fetch pipeline (fetch_metadata_and_image, fetch_image), the   *)
(* bounded image_queue, the GUI consumer (ImageDisplayApp.update_task),    *)
(* the SIGINT handler and main's shutdown/join.                            *)
(*                                                                         *)
(* The subscriber runs in its own thread; the consumer, the signal handler *)
(* and main run in the main thread.  Each action is one step of one of     *)
(* them, so every interleaving of the two threads is explored.             *)
(***************************************************************************)
EXTENDS Integers, Sequences, FiniteSets, TLC

VARIABLES
    shutdown_requested,  \* global flag, line 14
    image_queue,         \* queue.Queue(maxsize=5), line 15; artifacts by event number
    pc,                  \* position of subscribe()
    retry_delay,         \* local of subscribe(), line 71
    websocket,           \* "closed" | "open": the connection of the async with block
    subscribed,          \* the subscribe request was sent on the current connection
    message,             \* the message returned by the last recv(), line 82
    image,               \* the result of the last fetch_metadata_and_image, line 91
    outcome,             \* what the HTTP servers answered to the last fetch
    nrecv,               \* number of inbound messages received so far
    cpc,                 \* position of update_task(): "idle" | "get"
    main_pc,             \* position of main(): "mainloop" | "join" | "exit"
    sleeps,              \* history: the delays slept, in order (first MaxSleeps)
    everConnected,       \* history: some connection attempt has succeeded
    observed,            \* history: a poll of shutdown_requested has read True
    popped,              \* history: the artifacts update_task has taken, in order
    recvAfterFlag,       \* history: messages recv() returned with the flag set (0, 1, 2+)
    nsent,               \* history: executions of line 78 on the latest connection (0, 1, 2+)
    attempts,            \* history: connection attempts started (0, 1, 2+)
    sleptSince,          \* history: backoff sleeps completed since the latest attempt (0, 1, 2+)
    image_uri,           \* metadata["image"], line 31 (a sequence of characters)
    resolved_uri,        \* image_uri as handed to fetch_image, line 40
    upc                  \* position in lines 31-40: "idle" | "rewrite" | "done"

vars == <<shutdown_requested, image_queue, pc, retry_delay, websocket,
          subscribed, message, image, outcome, nrecv, cpc, main_pc,
          sleeps, everConnected, observed, popped, recvAfterFlag, nsent,
          attempts, sleptSince, image_uri, resolved_uri, upc>>

(***************************************************************************)
(* Bounds                                                                  *)
(***************************************************************************)
MaxEvents == 6   \* inbound messages the server delivers in one run
MaxSleeps == 7   \* backoff sleeps recorded in the history
MaxParts == 3    \* fragments an image URI is made of

(***************************************************************************)
(* Program constants                                                       *)
(***************************************************************************)
InitialDelay == 1
MaxDelay == 30

maxsize_unbounded == 0

maxsize == 5

None == 0        \* Python's None; artifacts are event numbers 1..MaxEvents

Min(a, b) == IF a <= b THEN a ELSE b

(***************************************************************************)
(* queue.Queue: full() is 0 < maxsize <= qsize(); maxsize <= 0 is an       *)
(* unbounded queue.  put() blocks while full, get() blocks while empty.    *)
(***************************************************************************)
full_off_by_one(q) == 0 < maxsize /\ maxsize < Len(q)

full(q) == 0 < maxsize /\ maxsize <= Len(q)

empty_never(q) == FALSE

empty(q) == Len(q) = 0

\* queue.Queue is FIFO: put() appends at the tail (line 94), get() takes
\* the head (line 140).
put_lifo(q, x) == <<x>> \o q

put(q, x) == Append(q, x)

get(q) == [item |-> Head(q), rest |-> Tail(q)]

(***************************************************************************)
(* Inbound messages.  text: the payload is JSON text; type: the Python     *)
(* type json.loads returns; uri: whether `"uri" in data` is true (a key of *)
(* a dict, an element of a list).                                          *)
(***************************************************************************)
NoMessage == [text |-> FALSE, type |-> "none", uri |-> FALSE]

NotJson == [text |-> FALSE, type |-> "garbage", uri |-> FALSE]

Messages ==
    {NotJson}
    \cup [text : {TRUE}, type : {"dict", "list"}, uri : BOOLEAN]
    \cup {[text |-> TRUE, type |-> "num", uri |-> FALSE]}

IsMapping(m) == m.text /\ m.type = "dict"

Malformed(m) == m \in Messages /\ ~IsMapping(m)

(***************************************************************************)
(* Lines 83-87: json.loads(message), `"uri" in data`, data["uri"].         *)
(* "raise": an exception leaves the receive loop; "skip": back to the      *)
(* while test; "fetch": go on to fetch_metadata_and_image.                 *)
(***************************************************************************)
ParseOutcome_always_fetch(m) ==
    IF ~m.text THEN "raise"
    ELSE IF m.type = "num" THEN "raise"
    ELSE IF m.type # "dict" /\ m.uri THEN "raise"
    ELSE "fetch"

ParseOutcome(m) ==
    IF ~m.text THEN "raise"                    \* json.loads: JSONDecodeError
    ELSE IF m.type = "num" THEN "raise"        \* "uri" in 5: TypeError
    ELSE IF ~m.uri THEN "skip"                 \* line 86 false
    ELSE IF m.type # "dict" THEN "raise"       \* ["uri"]["uri"]: TypeError
    ELSE "fetch"

(***************************************************************************)
(* fetch_image (lines 49-64) and fetch_metadata_and_image (lines 19-45).   *)
(* o is what the network answers; id is the artifact a full success gives. *)
(* Both functions catch every Exception and fall off the end (None).       *)
(***************************************************************************)
FetchOutcomes ==
    {"meta_http_error", "meta_timeout", "meta_unparseable", "no_image",
     "image_http_error", "image_undecodable", "ok"}

fetch_image(o, id) ==
    IF o = "image_http_error" THEN None        \* RequestException, line 61
    ELSE IF o = "image_undecodable" THEN None  \* Exception, line 63
    ELSE id                                    \* line 59

fetch_metadata_and_image_uncaught(o, id) ==
    IF o \in {"meta_http_error", "meta_timeout", "meta_unparseable"}
    THEN [raised |-> TRUE, image |-> None]
    ELSE IF o = "no_image" THEN [raised |-> FALSE, image |-> None]
    ELSE [raised |-> FALSE, image |-> fetch_image(o, id)]

fetch_metadata_and_image(o, id) ==
    IF o \in {"meta_http_error", "meta_timeout"}
    THEN [raised |-> FALSE, image |-> None]    \* RequestException, line 42
    ELSE IF o = "meta_unparseable"
    THEN [raised |-> FALSE, image |-> None]    \* line 42 or 44
    ELSE IF o = "no_image"
    THEN [raised |-> FALSE, image |-> None]    \* line 30 false
    ELSE [raised |-> FALSE, image |-> fetch_image(o, id)]

(***************************************************************************)
(* Lines 100-103: where an exception raised inside the try block leaves    *)
(* subscribe().  Every Exception is caught; control continues at line 105. *)
(* "raised" is subscribe() terminated by an uncaught exception.            *)
(***************************************************************************)
Exceptions == {"ConnectionClosedError", "ConnectionClosedOK", "Exception"}

ExceptTarget_only_closed(exc) ==
    IF exc \in {"ConnectionClosedError", "ConnectionClosedOK"}
    THEN "poll105" ELSE "raised"

ExceptTarget(exc) ==
    IF exc \in {"ConnectionClosedError", "ConnectionClosedOK"}
    THEN "poll105"                             \* line 100
    ELSE "poll105"                             \* line 102

(***************************************************************************)
(* Line 105: whether to back off.  Line 108: the next delay.               *)
(* Lines 95-96: what a full queue does with the queue.                     *)
(***************************************************************************)
ShouldBackoff_always(flag) == TRUE

ShouldBackoff_never(flag) == FALSE

ShouldBackoff(flag) == ~flag

\* Line 81: the receive loop's while test.
KeepReceiving_always(flag) == TRUE

KeepReceiving(flag) == ~flag

NextDelay_cap32(d) == Min(d * 2, 32)

NextDelay_cap_before_doubling(d) == Min(d, MaxDelay) * 2

NextDelay(d) == Min(d * 2, MaxDelay)

OnFull_evict_oldest(q, img) == Append(Tail(q), img)

OnFull(q, img) == q

Record(h, d) == IF Len(h) < MaxSleeps THEN Append(h, d) ELSE h

(***************************************************************************)
(* Lines 31-40: the image URI rewrite.  Strings are sequences of           *)
(* characters.  str.startswith(p) compares the first len(p) characters;    *)
(* str.replace(old, new) replaces every non-overlapping occurrence of old, *)
(* scanning from the left.                                                 *)
(***************************************************************************)
IpfsScheme == <<"i", "p", "f", "s", ":", "/", "/">>

IpfsGateway ==
    <<"h", "t", "t", "p", "s", ":", "/", "/", "i", "p", "f", "s", ".", "i",
      "o", "/", "i", "p", "f", "s", "/">>

Drop(str, n) == SubSeq(str, n + 1, Len(str))

startswith(str, prefix) ==
    /\ Len(str) >= Len(prefix)
    /\ SubSeq(str, 1, Len(prefix)) = prefix

RECURSIVE replace(_, _, _)
replace(str, old, new) ==
    IF Len(str) < Len(old) THEN str
    ELSE IF startswith(str, old)
    THEN new \o replace(Drop(str, Len(old)), old, new)
    ELSE <<str[1]>> \o replace(Tail(str), old, new)

\* lines 34-35
RewriteUri(uri) ==
    IF startswith(uri, IpfsScheme)
    THEN replace(uri, IpfsScheme, IpfsGateway)
    ELSE uri

\* The image URIs tried: up to MaxParts fragments, concatenated.
Fragments ==
    { IpfsScheme,
      <<"i", "p", "f", "s", ":", "/">>,
      <<"h", "t", "t", "p", ":", "/", "/">>,
      <<"Q", "m">>,
      <<"/", "a">> }

RECURSIVE Concat(_)
Concat(parts) ==
    IF parts = <<>> THEN <<>> ELSE Head(parts) \o Concat(Tail(parts))

ImageUris ==
    { Concat(parts) : parts \in UNION { [1..n -> Fragments] : n \in 0..MaxParts } }

(***************************************************************************)
(* Initial state: module globals (lines 14-15), subscribe() at its first   *)
(* while test with retry_delay = 1, the GUI idle in mainloop.              *)
(***************************************************************************)
Init ==
    /\ shutdown_requested = FALSE
    /\ image_queue = <<>>
    /\ pc = "loop"
    /\ retry_delay = InitialDelay
    /\ websocket = "closed"
    /\ subscribed = FALSE
    /\ message = NoMessage
    /\ image = None
    /\ outcome = "none"
    /\ nrecv = 0
    /\ cpc = "idle"
    /\ main_pc = "mainloop"
    /\ sleeps = <<>>
    /\ everConnected = FALSE
    /\ observed = FALSE
    /\ popped = <<>>
    /\ recvAfterFlag = 0
    /\ nsent = 0
    /\ attempts = 0
    /\ sleptSince = 0
    /\ image_uri = <<>>
    /\ resolved_uri = <<>>
    /\ upc = "idle"

\* The state in which lines 31-40 run on one image URI: everything else as
\* in Init.
RewriteInit ==
    /\ image_uri \in ImageUris
    /\ resolved_uri = <<>>
    /\ upc = "rewrite"
    /\ shutdown_requested = FALSE
    /\ image_queue = <<>>
    /\ pc = "fetch"
    /\ retry_delay = InitialDelay
    /\ websocket = "open"
    /\ subscribed = TRUE
    /\ message = [text |-> TRUE, type |-> "dict", uri |-> TRUE]
    /\ image = None
    /\ outcome = "none"
    /\ nrecv = 1
    /\ cpc = "idle"
    /\ main_pc = "mainloop"
    /\ sleeps = <<>>
    /\ everConnected = TRUE
    /\ observed = FALSE
    /\ popped = <<>>
    /\ recvAfterFlag = 0
    /\ nsent = 1
    /\ attempts = 1
    /\ sleptSince = 0

\* An exception raised inside the try block: the async with closes the
\* connection, the handler runs, control continues after the try.
Raise(exc) ==
    /\ websocket' = "closed"
    /\ pc' = ExceptTarget(exc)

consumerVars == <<cpc, main_pc, popped>>

rewriteVars == <<image_uri, resolved_uri, upc>>

\* saturating counter for the histories
Count(n) == IF n < 2 THEN n + 1 ELSE 2

(***************************************************************************)
(* subscribe(), lines 68-108                                               *)
(***************************************************************************)
\* line 73: while not shutdown_requested
OuterLoop ==
    /\ pc = "loop"
    /\ observed' = (observed \/ shutdown_requested)
    /\ pc' = IF shutdown_requested THEN "done" ELSE "connect"
    /\ UNCHANGED <<shutdown_requested, image_queue, retry_delay, websocket,
                   subscribed, message, image, outcome, nrecv, sleeps,
                   everConnected>>
    /\ UNCHANGED consumerVars
    /\ attempts' = IF shutdown_requested THEN attempts ELSE Count(attempts)
    /\ UNCHANGED <<recvAfterFlag, nsent, sleptSince>>
    /\ UNCHANGED rewriteVars

ConnectOk_skips_send ==
    /\ pc = "connect"
    /\ websocket' = "open"
    /\ subscribed' = FALSE
    /\ everConnected' = TRUE
    /\ pc' = "inner"
    /\ nsent' = 0
    /\ sleptSince' = 0
    /\ UNCHANGED <<shutdown_requested, image_queue, retry_delay, message,
                   image, outcome, nrecv, sleeps, observed, recvAfterFlag,
                   attempts>>
    /\ UNCHANGED consumerVars
    /\ UNCHANGED rewriteVars

\* line 75: websockets.connect(uri) succeeds
ConnectOk ==
    /\ pc = "connect"
    /\ websocket' = "open"
    /\ subscribed' = FALSE
    /\ everConnected' = TRUE
    /\ pc' = "send"
    /\ UNCHANGED <<shutdown_requested, image_queue, retry_delay, message,
                   image, outcome, nrecv, sleeps, observed>>
    /\ UNCHANGED consumerVars
    /\ nsent' = 0
    /\ sleptSince' = 0
    /\ UNCHANGED <<recvAfterFlag, attempts>>
    /\ UNCHANGED rewriteVars

\* line 75: websockets.connect(uri) raises (refused, timeout, bad handshake)
ConnectFail ==
    /\ pc = "connect"
    /\ subscribed' = FALSE
    /\ Raise("Exception")
    /\ UNCHANGED <<shutdown_requested, image_queue, retry_delay, message,
                   image, outcome, nrecv, sleeps, everConnected, observed>>
    /\ UNCHANGED consumerVars
    /\ sleptSince' = 0
    /\ UNCHANGED <<recvAfterFlag, nsent, attempts>>
    /\ UNCHANGED rewriteVars

\* line 78: websocket.send(subscribeNewToken)
SendOk ==
    /\ pc = "send"
    /\ subscribed' = TRUE
    /\ pc' = "inner"
    /\ UNCHANGED <<shutdown_requested, image_queue, retry_delay, websocket,
                   message, image, outcome, nrecv, sleeps, everConnected,
                   observed>>
    /\ UNCHANGED consumerVars
    /\ nsent' = Count(nsent)
    /\ UNCHANGED <<recvAfterFlag, attempts, sleptSince>>
    /\ UNCHANGED rewriteVars

\* line 78: the connection closed before the request was sent
SendFail ==
    /\ pc = "send"
    /\ \E exc \in {"ConnectionClosedError", "ConnectionClosedOK"} : Raise(exc)
    /\ UNCHANGED <<shutdown_requested, image_queue, retry_delay, subscribed,
                   message, image, outcome, nrecv, sleeps, everConnected,
                   observed>>
    /\ UNCHANGED consumerVars
    /\ nsent' = Count(nsent)
    /\ UNCHANGED <<recvAfterFlag, attempts, sleptSince>>
    /\ UNCHANGED rewriteVars

\* line 81: while not shutdown_requested; on exit line 98 and the end of
\* the async with block (the connection is closed)
InnerLoop ==
    /\ pc = "inner"
    /\ observed' = (observed \/ shutdown_requested)
    /\ message' = NoMessage
    /\ image' = None
    /\ outcome' = "none"
    /\ IF ~KeepReceiving(shutdown_requested)
       THEN /\ retry_delay' = 1
            /\ websocket' = "closed"
            /\ pc' = "poll105"
       ELSE /\ pc' = "recv"
            /\ UNCHANGED <<retry_delay, websocket>>
    /\ UNCHANGED <<shutdown_requested, image_queue, subscribed, nrecv,
                   sleeps, everConnected>>
    /\ UNCHANGED consumerVars
    /\ UNCHANGED <<recvAfterFlag, nsent, attempts, sleptSince>>
    /\ UNCHANGED rewriteVars

\* line 82: recv() returns the next inbound message
Recv ==
    /\ pc = "recv"
    /\ nrecv < MaxEvents
    /\ \E m \in Messages : message' = m
    /\ nrecv' = nrecv + 1
    /\ pc' = "parse"
    /\ UNCHANGED <<shutdown_requested, image_queue, retry_delay, websocket,
                   subscribed, image, outcome, sleeps, everConnected,
                   observed>>
    /\ UNCHANGED consumerVars
    /\ recvAfterFlag' = IF shutdown_requested THEN Count(recvAfterFlag) ELSE recvAfterFlag
    /\ UNCHANGED <<nsent, attempts, sleptSince>>
    /\ UNCHANGED rewriteVars

\* line 82: recv() raises because the connection closed
RecvClosed ==
    /\ pc = "recv"
    /\ \E exc \in {"ConnectionClosedError", "ConnectionClosedOK"} : Raise(exc)
    /\ UNCHANGED <<shutdown_requested, image_queue, retry_delay, subscribed,
                   message, image, outcome, nrecv, sleeps, everConnected,
                   observed>>
    /\ UNCHANGED consumerVars
    /\ UNCHANGED <<recvAfterFlag, nsent, attempts, sleptSince>>
    /\ UNCHANGED rewriteVars

\* lines 83-88: parse the message and look for the uri field
Parse ==
    /\ pc = "parse"
    /\ LET r == ParseOutcome(message) IN
         \/ /\ r = "raise"
            /\ Raise("Exception")
         \/ /\ r = "skip"
            /\ pc' = "inner"
            /\ UNCHANGED websocket
         \/ /\ r = "fetch"
            /\ pc' = "fetch"
            /\ UNCHANGED websocket
    /\ UNCHANGED <<shutdown_requested, image_queue, retry_delay, subscribed,
                   message, image, outcome, nrecv, sleeps, everConnected,
                   observed>>
    /\ UNCHANGED consumerVars
    /\ UNCHANGED <<recvAfterFlag, nsent, attempts, sleptSince>>
    /\ UNCHANGED rewriteVars

\* line 91: image = await fetch_metadata_and_image(metadata_uri)
Fetch ==
    /\ pc = "fetch"
    /\ \E o \in FetchOutcomes :
         LET r == fetch_metadata_and_image(o, nrecv) IN
           /\ outcome' = o
           /\ IF r.raised
              THEN /\ Raise("Exception")
                   /\ UNCHANGED image
              ELSE /\ image' = r.image
                   /\ pc' = "chk"
                   /\ UNCHANGED websocket
    /\ UNCHANGED <<shutdown_requested, image_queue, retry_delay, subscribed,
                   message, nrecv, sleeps, everConnected, observed>>
    /\ UNCHANGED consumerVars
    /\ UNCHANGED <<recvAfterFlag, nsent, attempts, sleptSince>>
    /\ UNCHANGED rewriteVars

\* lines 92-93, 95-96: if image: if not image_queue.full(): ... else: print
CheckFull ==
    /\ pc = "chk"
    /\ IF image = None
       THEN /\ pc' = "inner"
            /\ UNCHANGED image_queue
       ELSE IF ~full(image_queue)
       THEN /\ pc' = "put"
            /\ UNCHANGED image_queue
       ELSE /\ pc' = "inner"
            /\ image_queue' = OnFull(image_queue, image)
    /\ UNCHANGED <<shutdown_requested, retry_delay, websocket, subscribed,
                   message, image, outcome, nrecv, sleeps, everConnected,
                   observed>>
    /\ UNCHANGED consumerVars
    /\ UNCHANGED <<recvAfterFlag, nsent, attempts, sleptSince>>
    /\ UNCHANGED rewriteVars

\* line 94: image_queue.put(image), which blocks while the queue is full
Put ==
    /\ pc = "put"
    /\ ~full(image_queue)
    /\ image_queue' = put(image_queue, image)
    /\ pc' = "inner"
    /\ UNCHANGED <<shutdown_requested, retry_delay, websocket, subscribed,
                   message, image, outcome, nrecv, sleeps, everConnected,
                   observed>>
    /\ UNCHANGED consumerVars
    /\ UNCHANGED <<recvAfterFlag, nsent, attempts, sleptSince>>
    /\ UNCHANGED rewriteVars

\* lines 105-107: if not shutdown_requested: start asyncio.sleep(retry_delay)
Backoff ==
    /\ pc = "poll105"
    /\ observed' = (observed \/ shutdown_requested)
    /\ IF ShouldBackoff(shutdown_requested)
       THEN /\ sleeps' = Record(sleeps, retry_delay)
            /\ pc' = "sleep"
       ELSE /\ pc' = "loop"
            /\ UNCHANGED sleeps
    /\ UNCHANGED <<shutdown_requested, image_queue, retry_delay, websocket,
                   subscribed, message, image, outcome, nrecv, everConnected>>
    /\ UNCHANGED consumerVars
    /\ UNCHANGED <<recvAfterFlag, nsent, attempts, sleptSince>>
    /\ UNCHANGED rewriteVars

\* lines 107-108: the sleep ends; retry_delay = min(retry_delay * 2, 30)
SleepDone ==
    /\ pc = "sleep"
    /\ retry_delay' = NextDelay(retry_delay)
    /\ pc' = "loop"
    /\ UNCHANGED <<shutdown_requested, image_queue, websocket, subscribed,
                   message, image, outcome, nrecv, sleeps, everConnected,
                   observed>>
    /\ UNCHANGED consumerVars
    /\ sleptSince' = Count(sleptSince)
    /\ UNCHANGED <<recvAfterFlag, nsent, attempts>>
    /\ UNCHANGED rewriteVars

subscriberVars == <<pc, retry_delay, websocket, subscribed, message, image,
                    outcome, nrecv, sleeps, everConnected, observed,
                    recvAfterFlag, nsent, attempts, sleptSince>>

(***************************************************************************)
(* Main thread: signal handler, update_task, main                          *)
(***************************************************************************)
handle_shutdown_signal_clears_queue ==
    /\ main_pc = "mainloop"
    /\ shutdown_requested' = TRUE
    /\ image_queue' = <<>>
    /\ UNCHANGED <<cpc, main_pc>>
    /\ UNCHANGED subscriberVars
    /\ UNCHANGED rewriteVars
    /\ UNCHANGED popped

\* lines 112-115
handle_shutdown_signal ==
    /\ main_pc = "mainloop"
    /\ shutdown_requested' = TRUE
    /\ UNCHANGED <<image_queue, cpc, main_pc>>
    /\ UNCHANGED subscriberVars
    /\ UNCHANGED rewriteVars
    /\ UNCHANGED popped

\* lines 138-139: the queue is not empty and 2 seconds have passed
UpdateTaskCheck ==
    /\ main_pc = "mainloop"
    /\ cpc = "idle"
    /\ ~empty(image_queue)
    /\ cpc' = "get"
    /\ UNCHANGED <<shutdown_requested, image_queue, main_pc>>
    /\ UNCHANGED subscriberVars
    /\ UNCHANGED rewriteVars
    /\ UNCHANGED popped

\* lines 140-148: image_queue.get(), which blocks while the queue is empty
UpdateTaskGet ==
    /\ cpc = "get"
    /\ ~empty(image_queue)
    /\ image_queue' = get(image_queue).rest
    /\ cpc' = "idle"
    /\ UNCHANGED <<shutdown_requested, main_pc>>
    /\ UNCHANGED subscriberVars
    /\ UNCHANGED rewriteVars
    /\ popped' = Append(popped, get(image_queue).item)

\* lines 171-176: mainloop returns (window closed); shutdown_requested = True
MainloopExit ==
    /\ main_pc = "mainloop"
    /\ cpc = "idle"
    /\ main_pc' = "join"
    /\ shutdown_requested' = TRUE
    /\ UNCHANGED <<image_queue, cpc>>
    /\ UNCHANGED subscriberVars
    /\ UNCHANGED rewriteVars
    /\ UNCHANGED popped

\* line 177: loop_thread.join() returns once subscribe() has ended
Join ==
    /\ main_pc = "join"
    /\ pc \in {"done", "raised"}
    /\ main_pc' = "exit"
    /\ UNCHANGED <<shutdown_requested, image_queue, cpc>>
    /\ UNCHANGED subscriberVars
    /\ UNCHANGED rewriteVars
    /\ UNCHANGED popped

Next ==
    \/ OuterLoop
    \/ ConnectOk
    \/ ConnectFail
    \/ SendOk
    \/ SendFail
    \/ InnerLoop
    \/ Recv
    \/ RecvClosed
    \/ Parse
    \/ Fetch
    \/ CheckFull
    \/ Put
    \/ Backoff
    \/ SleepDone
    \/ handle_shutdown_signal
    \/ UpdateTaskCheck
    \/ UpdateTaskGet
    \/ MainloopExit
    \/ Join

Spec == Init /\ [][Next]_vars

(***************************************************************************)
(* Fairness: every step of subscribe() that does not wait for the server   *)
(* to speak eventually happens (sleeps, HTTP fetches and connection        *)
(* attempts are bounded by their timeouts).  recv() has no timeout, so     *)
(* neither Recv nor RecvClosed is fair.                                    *)
(***************************************************************************)
FairSpec ==
    /\ Spec
    /\ WF_vars(OuterLoop)
    /\ WF_vars(ConnectOk \/ ConnectFail)
    /\ WF_vars(SendOk \/ SendFail)
    /\ WF_vars(InnerLoop)
    /\ WF_vars(Parse)
    /\ WF_vars(Fetch)
    /\ WF_vars(CheckFull)
    /\ WF_vars(Put)
    /\ WF_vars(Backoff)
    /\ WF_vars(SleepDone)

(***************************************************************************)
(* The rewrite on its own: lines 34-35 applied to one image URI.           *)
(***************************************************************************)
RewriteImageUri ==
    /\ upc = "rewrite"
    /\ resolved_uri' = RewriteUri(image_uri)
    /\ upc' = "done"
    /\ UNCHANGED image_uri
    /\ UNCHANGED <<shutdown_requested, image_queue>>
    /\ UNCHANGED consumerVars
    /\ UNCHANGED subscriberVars

RewriteSpec == RewriteInit /\ [][RewriteImageUri]_vars

TypeOK ==
    /\ shutdown_requested \in BOOLEAN
    /\ pc \in {"loop", "connect", "send", "inner", "recv", "parse", "fetch",
               "chk", "put", "poll105", "sleep", "done", "raised"}
    /\ retry_delay \in 1..MaxDelay
    /\ websocket \in {"closed", "open"}
    /\ nrecv \in 0..MaxEvents
    /\ image \in 0..MaxEvents
    /\ cpc \in {"idle", "get"}
    /\ main_pc \in {"mainloop", "join", "exit"}

(***************************************************************************)
(* Properties                                                              *)
(***************************************************************************)
\* The delay the specification prescribes for the i-th consecutive failure:
\* 1, 2, 4, 8, 16, 30, 30, ...
BackoffSeq(i) == Min(2 ^ (i - 1), 30)

InQueue(x, q) == \E i \in 1..Len(q) : q[i] = x

\* C1: in every reachable state, whatever the interleaving of the producer
\* (the push path of subscribe) and the consumer (update_task's pop), the
\* number of artifacts in image_queue is at most 5.
C1_QueueWithinCapacity == Len(image_queue) <= 5

\* C1 witness: the producer arrives with a new artifact at a queue that
\* holds 5 artifacts.
C1_ProducerMeetsFullQueue ==
    pc = "chk" /\ image # None /\ Len(image_queue) = 5

C3_DelayResetBySubscribe ==
    (pc = "sleep" /\ subscribed) => retry_delay = 1

\* C4: as long as every connection attempt has failed, the delays slept are
\* 1, 2, 4, 8, 16, 30, 30, ... in this order, and the delay to be slept
\* next is the next element of that sequence.
C4_FailureStreakDelays ==
    ~everConnected =>
        /\ \A i \in 1..Len(sleeps) : sleeps[i] = BackoffSeq(i)
        /\ (Len(sleeps) < MaxSleeps /\ pc # "sleep")
              => retry_delay = BackoffSeq(Len(sleeps) + 1)
        /\ (Len(sleeps) < MaxSleeps /\ pc = "sleep")
              => retry_delay = BackoffSeq(Len(sleeps))

\* C4 witness: seven consecutive failures, the last two sleeps at the cap.
C4_SevenFailuresSlept ==
    /\ ~everConnected
    /\ Len(sleeps) >= 7
    /\ sleeps[6] = 30
    /\ sleeps[7] = 30

\* C5 (as claimed): a malformed inbound message (not JSON, or JSON that is
\* not a mapping) is discarded on its own: the subscriber goes back to the
\* receive loop's while test on the same open connection.
C5_MalformedMessageDiscarded ==
    [][(pc = "parse" /\ Malformed(message) /\ pc' # pc)
        => (pc' = "inner" /\ websocket' = "open")]_vars

\* C6: when fetch_metadata_and_image produces no artifact, the fetch step
\* returns None to the receive loop without raising, the following step
\* pushes nothing and returns to the while test, and from there (flag not
\* set) the subscriber goes to recv; throughout, the connection stays open
\* and subscribed and the queue and the backoff delay are untouched.
C6_FailedFetchIsLocal ==
    [][/\ (pc = "fetch" /\ pc' # pc /\ outcome' # "ok")
            => /\ pc' = "chk"
               /\ image' = None
               /\ websocket' = "open"
               /\ subscribed'
               /\ UNCHANGED <<image_queue, retry_delay>>
       /\ (pc = "chk" /\ outcome \notin {"ok", "none"} /\ pc' # pc)
            => /\ pc' = "inner"
               /\ websocket' = "open"
               /\ subscribed'
               /\ UNCHANGED <<image_queue, retry_delay>>
       /\ (pc = "inner" /\ outcome \notin {"ok", "none"} /\ pc' # pc
              /\ ~shutdown_requested)
            => /\ pc' = "recv"
               /\ websocket' = "open"
               /\ subscribed'
               /\ UNCHANGED <<image_queue, retry_delay>>
      ]_vars

\* C6 witness: back at the while test after a metadata HTTP error, still
\* subscribed on the open connection, with no artifact.
C6_DroppedAfterHttpError ==
    /\ pc = "inner"
    /\ outcome = "meta_http_error"
    /\ image = None
    /\ websocket = "open"
    /\ subscribed

\* C7 (as claimed): once shutdown_requested is set, subscribe() eventually
\* terminates, with no inbound message and no connection close assumed.
C7_ShutdownLeadsToTermination ==
    shutdown_requested ~> (pc = "done")

\* C8: once a poll of the flag has read True, the subscriber is on its way
\* out: it is never again connecting, sending, in the receive loop or in a
\* backoff sleep, and its connection is closed.
C8_ShuttingDownIsTerminal ==
    observed => (pc \in {"poll105", "loop", "done"} /\ websocket = "closed")

\* C8 witness: the flag was set during the first backoff sleep (no poll
\* between the start of that sleep and the while test read it), and
\* subscribe() ended without another connection attempt.
C8_StoppedAfterSleep ==
    /\ observed
    /\ pc = "done"
    /\ ~everConnected
    /\ Len(sleeps) = 1
    /\ retry_delay = 2

\* C9: whenever subscribe() has terminated, shutdown_requested is set.
C9_TerminatesOnlyOnShutdown ==
    pc \in {"done", "raised"} => shutdown_requested

\* C9 witness: subscribe() has returned after surviving a failed attempt, a
\* lost connection and a received message.
C9_ReturnedAfterFailures ==
    /\ pc = "done"
    /\ everConnected
    /\ Len(sleeps) >= 2
    /\ nrecv >= 1

\* C10: a message that parses to a mapping without a uri field makes the
\* subscriber return to the while test: no fetch is started, nothing is
\* pushed, the connection stays open and subscribed, and the backoff delay
\* is unchanged.
C10_NoUriIsDiscarded ==
    [][(pc = "parse" /\ IsMapping(message) /\ ~message.uri /\ pc' # pc)
        => /\ pc' = "inner"
           /\ websocket' = "open"
           /\ UNCHANGED <<image_queue, retry_delay, subscribed, image,
                          outcome>>]_vars

\* C10 witness: back at the while test after a mapping without uri.
C10_MappingWithoutUriSkipped ==
    /\ pc = "inner"
    /\ message = [text |-> TRUE, type |-> "dict", uri |-> FALSE]
    /\ outcome = "none"
    /\ websocket = "open"

StrictlyIncreasing(q) == \A i, j \in 1..Len(q) : i < j => q[i] < q[j]

\* C11: artifacts carry the number of the event they come from (the order
\* of reception).  The artifacts popped so far followed by the artifacts
\* still queued are in strictly increasing event order and all come from
\* received events: what the consumer pops is an order-preserving
\* subsequence of the received events.
C11_PoppedInReceptionOrder ==
    /\ StrictlyIncreasing(popped \o image_queue)
    /\ \A i \in 1..Len(popped) : popped[i] \in 1..nrecv
    /\ \A i \in 1..Len(image_queue) : image_queue[i] \in 1..nrecv

\* C11 witness: the consumer has popped three artifacts, with an event
\* missing in between, after at least one reconnect.
C11_PoppedAcrossReconnect ==
    /\ Len(popped) >= 3
    /\ popped[2] > popped[1] + 1
    /\ Len(sleeps) >= 1
    /\ everConnected

\* The result the specification prescribes: ipfs://<rest> becomes
\* https://ipfs.io/ipfs/<rest>, anything else is unchanged.
PrefixSubstituted(uri) ==
    IF startswith(uri, IpfsScheme)
    THEN IpfsGateway \o Drop(uri, Len(IpfsScheme))
    ELSE uri

\* C12 (as claimed): the rewrite is an exact prefix substitution: for
\* ipfs://<rest> the resolved URI is https://ipfs.io/ipfs/<rest> with
\* <rest> untouched, also when <rest> contains ipfs://, and any other URI
\* passes through unchanged.
C12_ExactPrefixSubstitution ==
    upc = "done" => resolved_uri = PrefixSubstituted(image_uri)

\* C13: whenever the subscriber is about to execute image_queue.put (its
\* full() test was false), the queue holds fewer than 5 artifacts, so the
\* blocking put returns at once, whatever update_task did in between.
C13_PutFindsFreeSlot ==
    pc = "put" => Len(image_queue) < 5

\* C13 witness: the subscriber is at the put with 4 artifacts queued while
\* the consumer is in the middle of a pop.
C13_PutNextToLastSlot ==
    pc = "put" /\ Len(image_queue) = 4 /\ cpc = "get"

\* C14: retry_delay is always within [1, 30], and the only step that
\* lowers it is the exit of the receive loop of a subscribed, open
\* connection (line 98): within a streak of failures it never decreases.
C14_DelayRangeAndMonotone ==
    /\ [](retry_delay \in 1..30)
    /\ [][retry_delay' < retry_delay
            => (pc = "inner" /\ subscribed /\ websocket = "open")]_vars

\* C14 witness: the delay has reached the cap and is being slept, after a
\* connection had succeeded earlier.
C14_SleepingAtCap ==
    /\ pc = "sleep"
    /\ retry_delay = 30
    /\ everConnected
    /\ Len(sleeps) >= 6

\* C15: once the flag is set, every step (the one setting it included)
\* leaves the queue as it is, except the consumer's pop of its head and the
\* producer's append at its tail: nothing queued is removed or reordered by
\* the shutdown or by the subscriber's termination.
C15_ShutdownKeepsQueue ==
    [][shutdown_requested' =>
          \/ image_queue' = image_queue
          \/ /\ cpc = "get"
             /\ cpc' = "idle"
             /\ image_queue' = Tail(image_queue)
             /\ popped' = Append(popped, Head(image_queue))
          \/ /\ pc = "put"
             /\ pc' = "inner"
             /\ image_queue' = Append(image_queue, image)]_vars

\* C15 witness: subscribe() has returned after a shutdown with three
\* artifacts queued, the first of which has since been popped.
C15_QueueSurvivesTermination ==
    /\ pc = "done"
    /\ shutdown_requested
    /\ Len(image_queue) = 2
    /\ Len(popped) = 1
    /\ popped[1] < image_queue[1]
    /\ cpc = "idle"

ReceiveLoop == {"inner", "recv", "parse", "fetch", "chk", "put"}

\* C16: with the flag set, recv() returns at most one more message over the
\* rest of the run; the message in progress is carried through unchanged
\* (the fetch returns to the push, a free slot leads to the put, the put
\* appends the artifact), and the next while test leaves the receive loop.
C16_AtMostOneMoreMessage ==
    /\ [](recvAfterFlag <= 1)
    /\ [][/\ (pc = "fetch" /\ shutdown_requested /\ pc' # pc)
               => pc' = "chk"
          /\ (pc = "chk" /\ shutdown_requested /\ pc' # pc /\ image # None
                 /\ Len(image_queue) < 5)
               => pc' = "put"
          /\ (pc = "put" /\ shutdown_requested /\ pc' # pc)
               => (pc' = "inner" /\ image_queue' = Append(image_queue, image))
          /\ (pc = "inner" /\ shutdown_requested /\ pc' # pc)
               => (pc' \notin ReceiveLoop /\ websocket' = "closed")
         ]_vars

\* C16 witness: subscribe() has returned; the one message received after
\* the flag was set was fetched and its artifact is in the queue.
C16_LastMessageCompleted ==
    /\ pc = "done"
    /\ recvAfterFlag = 1
    /\ InQueue(nrecv, image_queue)

\* C17: line 78 is executed exactly once on every established connection,
\* before anything is received on it: in the receive loop the subscribe
\* request has been sent, once, on the open connection; before it, not yet.
C17_SubscribeSentOnceBeforeRecv ==
    /\ pc \in ReceiveLoop => (subscribed /\ nsent = 1 /\ websocket = "open")
    /\ pc = "send" => (~subscribed /\ nsent = 0 /\ websocket = "open")
    /\ nsent <= 1

\* C17 witness: a message has been received on a second or later
\* connection, on which the request was sent once.
C17_ReceivedOnLaterConnection ==
    /\ pc = "parse"
    /\ attempts = 2
    /\ Len(sleeps) >= 1
    /\ nsent = 1

\* C18: whenever a connection attempt has failed or a connection was lost
\* (subscribe() is past its try block, or was ended by the exception) with
\* the flag not set, the subscriber eventually starts a new connection
\* attempt, unless the flag is set in the meantime.
C18_EventuallyReconnects ==
    (pc \in {"poll105", "raised"} /\ ~shutdown_requested)
        ~> (pc = "connect" \/ shutdown_requested)

\* C18 witness: a new attempt is under way after a lost subscribed
\* connection and a backoff sleep, the flag still unset.
C18_ReconnectingAfterLoss ==
    /\ pc = "connect"
    /\ subscribed
    /\ sleptSince = 1
    /\ ~shutdown_requested
    /\ nrecv >= 1

\* C19: whenever update_task is about to execute image_queue.get (its
\* empty() test was false), the queue is not empty.
C19_GetFindsArtifact ==
    cpc = "get" => Len(image_queue) > 0

\* C19 witness: the consumer is at the get with one artifact queued while
\* the producer is at its put.
C19_GetWhileProducerPuts ==
    cpc = "get" /\ Len(image_queue) = 1 /\ pc = "put"

\* C20: at every connection attempt but the first, exactly one backoff
\* sleep has completed since the previous attempt, whether that attempt
\* failed or was subscribed and lost; and every sleep lasts the current
\* delay and is followed by its doubling, capped at 30.
C20_OneSleepBetweenAttempts ==
    /\ []((pc = "connect" /\ attempts >= 2) => sleptSince = 1)
    /\ [][(pc = "sleep" /\ pc' # pc)
            => /\ retry_delay' = Min(2 * retry_delay, 30)
               /\ sleptSince' = Count(sleptSince)
               /\ Len(sleeps) < MaxSleeps
                    => sleeps[Len(sleeps)] = retry_delay]_vars

\* C20 witness: a third or later attempt starts right after a failed
\* attempt and its sleep, a connection having been subscribed before.
C20_AttemptAfterFailedAttempt ==
    /\ pc = "connect"
    /\ attempts = 2
    /\ ~subscribed
    /\ everConnected
    /\ sleptSince = 1
    /\ Len(sleeps) >= 2
====
